---- MODULE Spec2Model ----
(***************************************************************************)
(* A model of extract_repo_info.py: the paginated fetcher run_request with *)
(* its retry loop and rate-limit-aware sleep, the CSV ledger               *)
(* (start_repo_csv, write_repo_row, get_repo_ids_from_csv) and the script  *)
(* body that selects the mode and walks the repositories.                  *)
(***************************************************************************)
EXTENDS Integers, Sequences, FiniteSets, TLC

\* ------------------------------------------------------------- constants
MAX_NB_RETRIES == 20
RETRY_SLEEP_DEFAULT == 5
MIN_RATE_LIMIT_REMAINING == 10

\* ---------------------------------------------------------------- bounds
\* Longest chain of pages the server holds for the generic endpoint.
MaxPages == 3
\* Number of items of a full page of the generic endpoint.
PageLen == 2

\* ------------------------------------------------------- python values
\* A JSON body or a Python return value: None, a list, or an object (dict).
\* For a dict, items holds the array under its "all" key.
None == [kind |-> "none", items |-> <<>>]

List(s) == [kind |-> "list", items |-> s]

Dict(s) == [kind |-> "dict", items |-> s]

\* Python truthiness of a value: None and the empty list are falsy.
Truthy(v) == CASE v.kind = "none" -> FALSE
               [] v.kind = "list" -> v.items # <<>>
               [] OTHER -> TRUE

isinstance_list(v) == v.kind = "list"

\* ------------------------------------------------------------ variables
VARIABLES
  env,        \* what the server may answer: statuses, rate-limit headers, clock readings;
              \* whether it counts the requests it receives
  server,     \* endpoint -> the chain of page bodies it serves, where that varies
  faults,     \* number of top-level calls the server has disturbed so far
  call,       \* arguments of the current top-level run_request call, and the number
              \* of requests the server has counted for it
  stack,      \* call stack of run_request / _process_successful_result frames
  ret,        \* value returned (or exception raised) by the callee that just finished
  log_errors, \* logging.error records of the current top-level run_request call
  answered,   \* request targets whose retry loop has ended in the current top-level call
  last_get,   \* the requests.get made by the step just taken, if any
  slept,      \* the time.sleep call made by the step just taken, if any
  finished,   \* the request target whose retry loop ended in the step just taken, if any
  pc,         \* where the script is: off, a fetch it waits for, loop, done, exited, ...
  args,       \* parsed command line: append_only
  csvfile,    \* the file at args.filepath: whether it exists, and its rows
  previously_processed_repo_ids,
  repos,
  all_teams,
  members_by_team_slug,
  member_logins_by_team_slug,
  repo_index, \* position of the for loop in repos
  repo_contributors,
  exit_message,
  interrupted \* the last run, if it was interrupted: what was listed, what was in flight

fetchVars == <<call, stack, ret, log_errors, answered, last_get, slept, finished>>

jobVars ==
  <<pc, args, csvfile, previously_processed_repo_ids, repos, all_teams,
    members_by_team_slug, member_logins_by_team_slug, repo_index, repo_contributors,
    exit_message, interrupted>>

vars == <<env, server, faults, fetchVars, jobVars>>

\* ------------------------------------------------------- _sleep_duration
\* headers: [limit, remaining, reset]; now: int(time.time()).
_sleep_duration_le(headers, now) ==
  IF headers.remaining <= MIN_RATE_LIMIT_REMAINING
    THEN headers.reset - now
    ELSE RETRY_SLEEP_DEFAULT

_sleep_duration(headers, now) ==
  IF headers.remaining < MIN_RATE_LIMIT_REMAINING
    THEN headers.reset - now
    ELSE RETRY_SLEEP_DEFAULT

\* ------------------------------------------------------ the organization
\* The organization's repositories, in the order of their full names; ids and
\* names are fixed, what varies between runs is which of them are listed.
MaxRepos == 3

\* Page size of the server for the repository listing.
PerPage == 2

RepoIds == <<21, 102, 12, 120, 201, 210>>

RepoById(id) ==
  LET k == CHOOSE k \in 1..Len(RepoIds) : RepoIds[k] = id
  IN [id |-> id,
      name |-> <<"a", "b", "c", "d", "e", "f">>[k],
      full_name |-> <<"org/a", "org/b", "org/c", "org/d", "org/e", "org/f">>[k],
      size |-> <<40, 7, 1300, 0, 5, 99>>[k]]

Universe == SubSeq(RepoIds, 1, MaxRepos)

ContributorsOf(id) ==
  LET k == CHOOSE k \in 1..Len(RepoIds) : RepoIds[k] = id
  IN <<<<"bob", "alice">>, <<"carol">>, <<"dave", "bob", "carol">>, <<"alice">>, <<>>,
       <<"bob">>>>[k]

WeeksOf(id) ==
  LET k == CHOOSE k \in 1..Len(RepoIds) : RepoIds[k] = id
  IN <<<<1, 0, 2, 3>>, <<0, 0, 0>>, <<5, 1, 0, 0, 7>>, <<2>>, <<>>, <<1, 1>>>>[k]

TeamSlugs == <<"core", "docs">>

TeamMembers(slug) == IF slug = "core" THEN <<"alice">> ELSE <<"carol">>

\* A list split into the server's pages; an empty list is one empty page.
RECURSIVE Paginate(_, _)
Paginate(s, n) ==
  IF Len(s) <= n THEN <<List(s)>>
  ELSE <<List(SubSeq(s, 1, n))>> \o Paginate(SubSeq(s, n + 1, Len(s)), n)

Records(field, values) == [k \in 1..Len(values) |-> [f \in {field} |-> values[k]]]

ReposEndpoint == [kind |-> "repos", key |-> "org"]

TeamsEndpoint == [kind |-> "teams", key |-> "org"]

MembersEndpoint(slug) == [kind |-> "members", key |-> slug]

ContributorsEndpoint(full_name) == [kind |-> "contributors", key |-> full_name]

ParticipationEndpoint(full_name) == [kind |-> "participation", key |-> full_name]

RepoOfEndpoint(ep) ==
  CHOOSE id \in {Universe[k] : k \in 1..Len(Universe)} : RepoById(id).full_name = ep.key

\* What the server holds whatever the organization lists.
StaticPages(ep) ==
  CASE ep.kind = "teams" -> Paginate(Records("slug", TeamSlugs), PerPage)
    [] ep.kind = "members" -> Paginate(Records("login", TeamMembers(ep.key)), PerPage)
    [] ep.kind = "contributors" ->
         Paginate(Records("login", ContributorsOf(RepoOfEndpoint(ep))), PerPage)
    [] OTHER -> <<Dict(WeeksOf(RepoOfEndpoint(ep)))>>

\* What the server holds when the organization lists the repositories `listing`.
OrgServer(listing) ==
  [ep \in {ReposEndpoint} |->
     Paginate([k \in 1..Len(listing) |-> RepoById(listing[k])], PerPage)]

\* The chain of pages of an endpoint.
Pages(ep) == IF ep \in DOMAIN server THEN server[ep] ELSE StaticPages(ep)

\* Subsequences of the universe: the listings the server may give, sorted by name.
Listings ==
  {SelectSeq(Universe, LAMBDA id : id \in S) : S \in SUBSET {Universe[k] : k \in 1..Len(Universe)}}

OrgHeaders ==
  {[limit |-> 60, remaining |-> MIN_RATE_LIMIT_REMAINING, reset |-> 1007],
   [limit |-> 60, remaining |-> MIN_RATE_LIMIT_REMAINING - 1, reset |-> 1000]}

\* Number of top-level calls the server disturbs in one behaviour.
MaxDisturbedCalls == 1

OrgEnv ==
  [statuses |-> {200, 204, 500}, headers |-> OrgHeaders, nows |-> {1001},
   max_faults |-> MaxDisturbedCalls, count_gets |-> FALSE]

\* ----------------------------------------------------------- run_request
NoHeaders == [limit |-> 0, remaining |-> 0, reset |-> 0]

NoResponse == [status_code |-> 0, headers |-> NoHeaders]

NoEndpoint == [kind |-> "", key |-> ""]

NoTarget == [ep |-> NoEndpoint, page |-> 0]

NoCall == [url |-> NoTarget, is_paginated |-> FALSE, disturbed |-> FALSE, gets |-> 0]

NoGet == [url |-> NoTarget, status_code |-> 0, attempt |-> 0]

NotSlept == [called |-> FALSE, seconds |-> 0, headers |-> NoHeaders, now |-> 0]

NotFinished ==
  [url |-> NoTarget, outcome |-> "none", attempts |-> 0, sleeps |-> 0,
   failure_count |-> 0, failure_status_codes |-> {}]

NoRet == [state |-> "none", value |-> None, exc |-> ""]

Returned(v) == [state |-> "value", value |-> v, exc |-> ""]

Raised(e) == [state |-> "raised", value |-> None, exc |-> e]

\* The frame of a fresh run_request(url, request_headers, is_paginated) call:
\* failure_count = 0, failure_status_codes = set().  attempts and sleeps count
\* the requests.get and time.sleep calls the frame has made.
NewFrame(url, is_paginated) ==
  [url |-> url, is_paginated |-> is_paginated, at |-> "loop",
   failure_count |-> 0, failure_status_codes |-> {},
   attempts |-> 0, sleeps |-> 0,
   raw_results |-> NoResponse, json_results |-> None]

\* The frame of _process_successful_result while its recursive run_request runs.
\* run_request returns whatever it returns, so the caller's locals are dead.
AwaitFrame(url, is_paginated, json_results) ==
  [NewFrame(url, is_paginated) EXCEPT !.at = "await", !.json_results = json_results]

Top == stack[Len(stack)]

Pop == SubSeq(stack, 1, Len(stack) - 1)

ReplaceTop(f) == [stack EXCEPT ![Len(stack)] = f]

\* while failure_count < MAX_NB_RETRIES
LoopGuardOffByOne(failure_count) == failure_count <= MAX_NB_RETRIES

LoopGuardSharedBudget(failure_count) == call.gets < MAX_NB_RETRIES

LoopGuard(failure_count) == failure_count < MAX_NB_RETRIES

\* "next" in successful_response.links: the server links every page but the last.
HasNext(url) == url.page < Len(Pages(url.ep))

NextUrl(url) == [ep |-> url.ep, page |-> url.page + 1]

\* json_results.extend(additional_results)
ExtendReversed(json_results, additional_results) ==
  List(additional_results.items \o json_results.items)

Extend(json_results, additional_results) ==
  List(json_results.items \o additional_results.items)

Finish(f, outcome) ==
  [url |-> f.url, outcome |-> outcome, attempts |-> f.attempts, sleeps |-> f.sleeps,
   failure_count |-> f.failure_count, failure_status_codes |-> f.failure_status_codes]

Got(f, status_code) == [url |-> f.url, status_code |-> status_code, attempt |-> f.attempts]

\* The top-level call run_request(url, request_headers, is_paginated).
StartCall(url, is_paginated) ==
  /\ call' = [url |-> url, is_paginated |-> is_paginated, disturbed |-> FALSE, gets |-> 0]
  /\ stack' = <<NewFrame(url, is_paginated)>>
  /\ ret' = NoRet
  /\ log_errors' = <<>>
  /\ answered' = {}
  /\ last_get' = NoGet
  /\ slept' = NotSlept
  /\ finished' = NotFinished

\* One more requests.get of the call has reached the server.
Counted(c) == IF env.count_gets THEN [c EXCEPT !.gets = @ + 1] ELSE c

\* requests.get answers 200: run_request returns _process_successful_result(...),
\* which either returns the parsed body or first calls run_request on the next link.
GetOk ==
  /\ stack # <<>> /\ Top.at = "loop" /\ LoopGuard(Top.failure_count)
  /\ 200 \in env.statuses
  /\ LET f == [Top EXCEPT !.attempts = @ + 1]
         json_results == Pages(f.url.ep)[f.url.page]
     IN /\ last_get' = Got(f, 200)
        /\ finished' = Finish(f, "200")
        /\ answered' = answered \cup {[url |-> f.url, outcome |-> "200"]}
        /\ IF f.is_paginated /\ HasNext(f.url)
             THEN IF ~isinstance_list(json_results)
                    THEN /\ stack' = <<>>
                         /\ ret' = Raised("AssertionError")
                    ELSE /\ stack' = Append(
                              ReplaceTop(AwaitFrame(f.url, f.is_paginated, json_results)),
                              NewFrame(NextUrl(f.url), f.is_paginated))
                         /\ ret' = NoRet
             ELSE /\ stack' = Pop
                  /\ ret' = Returned(json_results)
  /\ slept' = NotSlept
  /\ call' = Counted(call)
  /\ UNCHANGED <<env, server, faults, log_errors>>
  /\ UNCHANGED jobVars

\* The server answers something else than 200 only in a top-level call it
\* disturbs, and it disturbs at most env.max_faults of them.
MayDisturb == call.disturbed \/ faults < env.max_faults

Disturbed ==
  /\ call' = [Counted(call) EXCEPT !.disturbed = TRUE]
  /\ faults' = IF call.disturbed THEN faults ELSE faults + 1

\* requests.get answers 204: return None at once.
GetNoContentAsFailure ==
  /\ stack # <<>> /\ Top.at = "loop" /\ LoopGuard(Top.failure_count)
  /\ 204 \in env.statuses /\ MayDisturb
  /\ \E headers \in env.headers, now \in env.nows :
       LET f == [Top EXCEPT
                  !.attempts = @ + 1,
                  !.failure_status_codes = @ \cup {204},
                  !.failure_count = @ + 1,
                  !.raw_results = [status_code |-> 204, headers |-> headers],
                  !.sleeps = @ + 1]
           d == _sleep_duration(headers, now)
       IN /\ last_get' = Got(f, 204)
          /\ slept' = [called |-> TRUE, seconds |-> d, headers |-> headers, now |-> now]
          /\ IF d < 0
               THEN /\ stack' = <<>>
                    /\ ret' = Raised("ValueError")
               ELSE /\ stack' = ReplaceTop(f)
                    /\ ret' = ret
  /\ finished' = NotFinished
  /\ Disturbed
  /\ UNCHANGED <<env, server, log_errors, answered>>
  /\ UNCHANGED jobVars

GetNoContent ==
  /\ stack # <<>> /\ Top.at = "loop" /\ LoopGuard(Top.failure_count)
  /\ 204 \in env.statuses /\ MayDisturb
  /\ LET f == [Top EXCEPT !.attempts = @ + 1]
     IN /\ last_get' = Got(f, 204)
        /\ finished' = Finish(f, "204")
        /\ answered' = answered \cup {[url |-> f.url, outcome |-> "204"]}
        /\ stack' = Pop
        /\ ret' = Returned(None)
  /\ slept' = NotSlept
  /\ Disturbed
  /\ UNCHANGED <<env, server, log_errors>>
  /\ UNCHANGED jobVars

\* requests.get answers any other status, and the sleep is computed once per
\* target, from the headers of its first failed response.
GetFailedCachedDuration ==
  /\ stack # <<>> /\ Top.at = "loop" /\ LoopGuard(Top.failure_count)
  /\ MayDisturb
  /\ \E status_code \in env.statuses \ {200, 204}, headers \in env.headers,
        now \in env.nows :
       LET f == [Top EXCEPT
                  !.attempts = @ + 1,
                  !.failure_status_codes = @ \cup {status_code},
                  !.failure_count = @ + 1,
                  !.raw_results = [status_code |-> status_code, headers |-> headers],
                  !.sleeps = @ + 1]
           cached == IF Top.failure_count = 0 THEN headers ELSE Top.raw_results.headers
           d == _sleep_duration(cached, now)
       IN /\ last_get' = Got(f, status_code)
          /\ slept' = [called |-> TRUE, seconds |-> d, headers |-> cached, now |-> now]
          /\ IF d < 0
               THEN /\ stack' = <<>>
                    /\ ret' = Raised("ValueError")
               ELSE /\ stack' = ReplaceTop(f)
                    /\ ret' = ret
  /\ finished' = NotFinished
  /\ Disturbed
  /\ UNCHANGED <<env, server, log_errors, answered>>
  /\ UNCHANGED jobVars

\* requests.get answers any other status: the failure is recorded and counted,
\* and the loop sleeps for _sleep_duration(raw_results) before it goes round.
\* time.sleep raises ValueError on a negative argument.
GetFailed ==
  /\ stack # <<>> /\ Top.at = "loop" /\ LoopGuard(Top.failure_count)
  /\ MayDisturb
  /\ \E status_code \in env.statuses \ {200, 204}, headers \in env.headers,
        now \in env.nows :
       LET f == [Top EXCEPT
                  !.attempts = @ + 1,
                  !.failure_status_codes = @ \cup {status_code},
                  !.failure_count = @ + 1,
                  !.raw_results = [status_code |-> status_code, headers |-> headers],
                  !.sleeps = @ + 1]
           d == _sleep_duration(headers, now)
       IN /\ last_get' = Got(f, status_code)
          /\ slept' = [called |-> TRUE, seconds |-> d, headers |-> headers, now |-> now]
          /\ IF d < 0
               THEN /\ stack' = <<>>
                    /\ ret' = Raised("ValueError")
               ELSE /\ stack' = ReplaceTop(f)
                    /\ ret' = ret
  /\ finished' = NotFinished
  /\ Disturbed
  /\ UNCHANGED <<env, server, log_errors, answered>>
  /\ UNCHANGED jobVars

\* The while loop ends with the budget used up: logging.error, return None.
Exhausted ==
  /\ stack # <<>> /\ Top.at = "loop" /\ ~LoopGuard(Top.failure_count)
  /\ log_errors' = Append(log_errors,
                     [url |-> Top.url, status_codes |-> Top.failure_status_codes])
  /\ finished' = Finish(Top, "exhausted")
  /\ answered' = answered \cup {[url |-> Top.url, outcome |-> "exhausted"]}
  /\ stack' = Pop
  /\ ret' = Returned(None)
  /\ last_get' = NoGet
  /\ slept' = NotSlept
  /\ UNCHANGED <<env, server, call, faults>>
  /\ UNCHANGED jobVars

\* _process_successful_result after its recursive run_request returned.
Resume ==
  /\ stack # <<>> /\ Top.at = "await" /\ ret.state = "value"
  /\ LET additional_results == ret.value
     IN IF Truthy(additional_results)
          THEN IF ~isinstance_list(additional_results)
                 THEN /\ stack' = <<>>
                      /\ ret' = Raised("AssertionError")
                 ELSE /\ stack' = Pop
                      /\ ret' = Returned(Extend(Top.json_results, additional_results))
          ELSE /\ stack' = Pop
               /\ ret' = Returned(Top.json_results)
  /\ last_get' = NoGet
  /\ slept' = NotSlept
  /\ finished' = NotFinished
  /\ UNCHANGED <<env, server, call, faults, log_errors, answered>>
  /\ UNCHANGED jobVars

\* ------------------------------------------------------------- the ledger
\* RepoRow._fields
RepoRow_fields ==
  <<"repo_name", "repo_id", "repo_size", "last_3_weeks_commit_count",
    "last_52_weeks_commit_count", "contributor_count", "contributor_handles",
    "team_names">>

\* str(n) of a non-negative int, as its decimal digits, and int(s) back.
RECURSIVE str(_)
str(n) == IF n < 10 THEN <<n>> ELSE str(n \div 10) \o <<n % 10>>

RECURSIVE int(_)
int(s) == IF Len(s) = 1 THEN s[1] ELSE int(SubSeq(s, 1, Len(s) - 1)) * 10 + s[Len(s)]

NoFile == [exists |-> FALSE, rows |-> <<>>]

\* open(filepath, "x") and writeheader(): fails on an existing file.
start_repo_csv_truncating(file) ==
  [ok |-> TRUE, file |-> [exists |-> TRUE, rows |-> <<RepoRow_fields>>]]

start_repo_csv(file) ==
  IF file.exists
    THEN [ok |-> FALSE, file |-> file]
    ELSE [ok |-> TRUE, file |-> [exists |-> TRUE, rows |-> <<RepoRow_fields>>]]

\* csv.DictWriter.writerow(row._asdict()): every field through str, in the
\* order of the field names.  The two joined fields stay sequences of names.
RowText(row) ==
  <<row.repo_name, str(row.repo_id), str(row.repo_size),
    str(row.last_3_weeks_commit_count), str(row.last_52_weeks_commit_count),
    str(row.contributor_count), row.contributor_handles, row.team_names>>

\* open(filepath, "a") and writerow().
write_repo_row_buffered(file, row) == file

write_repo_row_rewriting(file, row) ==
  [exists |-> TRUE, rows |-> <<RepoRow_fields, RowText(row)>>]

write_repo_row(file, row) ==
  [exists |-> TRUE, rows |-> Append(file.rows, RowText(row))]

\* csv.DictReader: the first row names the fields of the others.
FieldIndex(fieldnames, name) == CHOOSE j \in 1..Len(fieldnames) : fieldnames[j] = name

DictReaderIds(rows) ==
  IF rows = <<>> THEN <<>>
  ELSE [r \in 1..(Len(rows) - 1) |-> rows[r + 1][FieldIndex(rows[1], "repo_id")]]

\* get_repo_ids_from_csv: None when the file is missing, else the set of ids.
get_repo_ids_from_csv_no_ids(file) ==
  IF ~file.exists THEN [found |-> FALSE, ids |-> {}] ELSE [found |-> TRUE, ids |-> {}]

get_repo_ids_from_csv_always_found(file) ==
  IF ~file.exists
    THEN [found |-> TRUE, ids |-> {}]
    ELSE LET cells == DictReaderIds(file.rows)
         IN [found |-> TRUE,
             ids |-> {int(cells[r]) : r \in {q \in 1..Len(cells) : cells[q] # <<>>}}]

get_repo_ids_from_csv_empty_is_missing(file) ==
  LET cells == DictReaderIds(file.rows)
      ids == {int(cells[r]) : r \in {q \in 1..Len(cells) : cells[q] # <<>>}}
  IN IF ~file.exists \/ ids = {}
       THEN [found |-> FALSE, ids |-> {}]
       ELSE [found |-> TRUE, ids |-> ids]

get_repo_ids_from_csv(file) ==
  IF ~file.exists
    THEN [found |-> FALSE, ids |-> {}]
    ELSE LET cells == DictReaderIds(file.rows)
         IN [found |-> TRUE,
             ids |-> {int(cells[r]) : r \in {q \in 1..Len(cells) : cells[q] # <<>>}}]

\* --------------------------------------------------------- build_repo_row
RECURSIVE sum(_)
sum(s) == IF s = <<>> THEN 0 ELSE s[1] + sum(Tail(s))

\* s[-n:]
FirstN(s, n) == IF Len(s) <= n THEN s ELSE SubSeq(s, 1, n)

LastN(s, n) == IF Len(s) <= n THEN s ELSE SubSeq(s, Len(s) - n + 1, Len(s))

\* sorted(): the names the model uses, in string order.
NameOrdering == <<"alice", "bob", "carol", "core", "dave", "docs">>

sorted(S) == SelectSeq(NameOrdering, LAMBDA x : x \in S)

Logins(people) == {people[k].login : k \in 1..Len(people)}

build_repo_row_every_team(repo, contributors, repo_stats, logins_by_team_slug) ==
  LET repo_contributor_logins == Logins(contributors)
  IN [repo_name |-> repo.name,
      repo_id |-> repo.id,
      repo_size |-> repo.size,
      last_3_weeks_commit_count |->
        IF Truthy(repo_stats) THEN sum(LastN(repo_stats.items, 3)) ELSE 0,
      last_52_weeks_commit_count |->
        IF Truthy(repo_stats) THEN sum(LastN(repo_stats.items, 52)) ELSE 0,
      contributor_count |-> Cardinality(repo_contributor_logins),
      contributor_handles |-> sorted(repo_contributor_logins),
      team_names |-> sorted(DOMAIN logins_by_team_slug)]

build_repo_row(repo, contributors, repo_stats, logins_by_team_slug) ==
  LET repo_contributor_logins == Logins(contributors)
      teams == {team_slug \in DOMAIN logins_by_team_slug :
                  repo_contributor_logins \cap logins_by_team_slug[team_slug] # {}}
  IN [repo_name |-> repo.name,
      repo_id |-> repo.id,
      repo_size |-> repo.size,
      last_3_weeks_commit_count |->
        IF Truthy(repo_stats) THEN sum(LastN(repo_stats.items, 3)) ELSE 0,
      last_52_weeks_commit_count |->
        IF Truthy(repo_stats) THEN sum(LastN(repo_stats.items, 52)) ELSE 0,
      contributor_count |-> Cardinality(repo_contributor_logins),
      contributor_handles |-> sorted(repo_contributor_logins),
      team_names |-> sorted(teams)]

\* ------------------------------------------------------------- the script
url(ep) == [ep |-> ep, page |-> 1]

\* X or []
OrEmpty(v) == IF Truthy(v) THEN v.items ELSE <<>>

Stopped == {"off", "done", "exited", "crashed", "killed"}

\* Nothing to remember of the last run: it was not interrupted.
NotInterrupted == [happened |-> FALSE, listed |-> <<>>, in_flight |-> 0]

\* The ids the organization lists, page after page.
RECURSIVE ListedIds(_, _)
ListedIds(pages, n) ==
  IF n = 0 THEN <<>>
  ELSE ListedIds(pages, n - 1) \o [k \in 1..Len(pages[n].items) |-> pages[n].items[k].id]

\* The run ends here without finishing.  When it was between the get_contributors
\* call and the row of a repository, that repository and what the organization
\* listed for the run are remembered; before the loop nothing was in flight.
Interrupt ==
  interrupted' =
    IF pc \in {"get_contributors", "get_participation_stats"}
      THEN [happened |-> TRUE,
            listed |-> ListedIds(server[ReposEndpoint], Len(server[ReposEndpoint])),
            in_flight |-> repos[repo_index].id]
      ELSE NotInterrupted

\* A new run: the interruption is remembered through runs that exit during mode
\* selection and through an append-only run for which the organization lists
\* the same repositories.
Remember ==
  interrupted' =
    IF /\ pc \in {"killed", "crashed", "exited"}
       /\ \/ pc' = "exited"
          \/ /\ args'.append_only
             /\ ListedIds(server'[ReposEndpoint], Len(server'[ReposEndpoint]))
                  = interrupted.listed
      THEN interrupted
      ELSE NotInterrupted

Waiting ==
  {"get_repos", "get_all_teams", "get_team_members", "get_contributors",
   "get_participation_stats"}

MemoryCleared ==
  /\ previously_processed_repo_ids' = {}
  /\ repos' = <<>>
  /\ all_teams' = <<>>
  /\ members_by_team_slug' = <<>>
  /\ member_logins_by_team_slug' = <<>>
  /\ repo_index' = 0
  /\ repo_contributors' = <<>>
  /\ exit_message' = ""

FetcherIdle ==
  /\ call' = NoCall
  /\ stack' = <<>>
  /\ ret' = NoRet
  /\ log_errors' = <<>>
  /\ answered' = {}
  /\ last_get' = NoGet
  /\ slept' = NotSlept
  /\ finished' = NotFinished

JobOff ==
  /\ pc = "off"
  /\ args = [append_only |-> FALSE]
  /\ csvfile = NoFile
  /\ previously_processed_repo_ids = {}
  /\ repos = <<>>
  /\ all_teams = <<>>
  /\ members_by_team_slug = <<>>
  /\ member_logins_by_team_slug = <<>>
  /\ repo_index = 0
  /\ repo_contributors = <<>>
  /\ exit_message = ""
  /\ interrupted = NotInterrupted

\* sys.exit(message) during mode selection.
Exit(message) ==
  /\ pc' = "exited"
  /\ exit_message' = message
  /\ previously_processed_repo_ids' = {}
  /\ repos' = <<>>
  /\ all_teams' = <<>>
  /\ members_by_team_slug' = <<>>
  /\ member_logins_by_team_slug' = <<>>
  /\ repo_index' = 0
  /\ repo_contributors' = <<>>
  /\ FetcherIdle
  /\ UNCHANGED server

\* Past mode selection: repos = get_repos(args.owner, headers) is called.
Proceed(ids) ==
  /\ pc' = "get_repos"
  /\ exit_message' = ""
  /\ previously_processed_repo_ids' = ids
  /\ repos' = <<>>
  /\ all_teams' = <<>>
  /\ members_by_team_slug' = <<>>
  /\ member_logins_by_team_slug' = <<>>
  /\ repo_index' = 0
  /\ repo_contributors' = <<>>
  /\ \E listing \in Listings : server' = OrgServer(listing)
  /\ StartCall(url(ReposEndpoint), TRUE)

\* The script is started with --append-only: lines 286-294, then get_repos.
StartAppendOnly ==
  /\ pc \in Stopped
  /\ args' = [append_only |-> TRUE]
  /\ csvfile' = csvfile
  /\ LET ids_from_csv == get_repo_ids_from_csv(csvfile)
     IN IF ~ids_from_csv.found
          THEN Exit("The given file does not already exist.")
          ELSE Proceed(ids_from_csv.ids)
  /\ Remember
  /\ UNCHANGED <<env, faults>>

\* The script is started without --append-only: lines 296-300, then get_repos.
StartNormal ==
  /\ pc \in Stopped
  /\ args' = [append_only |-> FALSE]
  /\ LET started == start_repo_csv(csvfile)
     IN /\ csvfile' = started.file
        /\ IF ~started.ok
             THEN Exit("The given file already exists.")
             ELSE Proceed({})
  /\ Remember
  /\ UNCHANGED <<env, faults>>

FetchReturned == stack = <<>> /\ ret.state = "value"

\* The for loop takes the next repository: skipped ones are passed over, the
\* first one to process gets its get_contributors call, the end of the list
\* ends the script.
NextToProcessNoSkip(rs, from, skip) == from

RECURSIVE NextToProcess(_, _, _)
NextToProcess(rs, from, skip) ==
  IF from > Len(rs) THEN from
  ELSE IF rs[from].id \in skip THEN NextToProcess(rs, from + 1, skip)
  ELSE from

EnterLoop(rs, from) ==
  LET n == NextToProcess(rs, from, previously_processed_repo_ids)
  IN /\ repo_index' = n
     /\ IF n > Len(rs)
          THEN /\ pc' = "done"
               /\ UNCHANGED fetchVars
          ELSE /\ pc' = "get_contributors"
               /\ StartCall(url(ContributorsEndpoint(rs[n].full_name)), TRUE)

\* repos = get_repos(...) or []; then get_logins_by_team_slug calls get_all_teams.
ReposReturned ==
  /\ pc = "get_repos" /\ FetchReturned
  /\ repos' = OrEmpty(ret.value)
  /\ pc' = "get_all_teams"
  /\ StartCall(url(TeamsEndpoint), TRUE)
  /\ UNCHANGED <<env, server, faults, args, csvfile, previously_processed_repo_ids, all_teams,
                 members_by_team_slug, member_logins_by_team_slug, repo_index,
                 repo_contributors, exit_message,
                 interrupted>>

LoginsByTeamSlug(teams, members) ==
  [slug \in {teams[t].slug : t \in 1..Len(teams)} |->
     Logins(members[CHOOSE t \in 1..Len(teams) : teams[t].slug = slug])]

\* all_teams = get_all_teams(...) or []; the comprehension then fetches the
\* members of the first team, or with no team the loop over repos begins.
TeamsReturned ==
  /\ pc = "get_all_teams" /\ FetchReturned
  /\ all_teams' = OrEmpty(ret.value)
  /\ members_by_team_slug' = <<>>
  /\ IF all_teams' = <<>>
       THEN /\ member_logins_by_team_slug' = <<>>
            /\ EnterLoop(repos, 1)
       ELSE /\ member_logins_by_team_slug' = member_logins_by_team_slug
            /\ pc' = "get_team_members"
            /\ repo_index' = repo_index
            /\ StartCall(url(MembersEndpoint(all_teams'[1].slug)), TRUE)
  /\ UNCHANGED <<env, server, faults, args, csvfile, previously_processed_repo_ids, repos,
                 repo_contributors, exit_message,
                 interrupted>>

\* get_team_members(...) or [] for one team; then the next team, or the dict
\* of login sets is built and the loop over repos begins.
MembersReturned ==
  /\ pc = "get_team_members" /\ FetchReturned
  /\ members_by_team_slug' = Append(members_by_team_slug, OrEmpty(ret.value))
  /\ IF Len(members_by_team_slug') < Len(all_teams)
       THEN /\ member_logins_by_team_slug' = member_logins_by_team_slug
            /\ pc' = "get_team_members"
            /\ repo_index' = repo_index
            /\ StartCall(
                 url(MembersEndpoint(all_teams[Len(members_by_team_slug') + 1].slug)), TRUE)
       ELSE /\ member_logins_by_team_slug' =
                 LoginsByTeamSlug(all_teams, members_by_team_slug')
            /\ EnterLoop(repos, 1)
  /\ UNCHANGED <<env, server, faults, args, csvfile, previously_processed_repo_ids, repos,
                 all_teams, repo_contributors, exit_message,
                 interrupted>>

\* repo_contributors = get_contributors(...) or []; then get_participation_stats.
ContributorsReturned ==
  /\ pc = "get_contributors" /\ FetchReturned
  /\ repo_contributors' = OrEmpty(ret.value)
  /\ pc' = "get_participation_stats"
  /\ StartCall(url(ParticipationEndpoint(repos[repo_index].full_name)), FALSE)
  /\ UNCHANGED <<env, server, faults, args, csvfile, previously_processed_repo_ids, repos,
                 all_teams, members_by_team_slug, member_logins_by_team_slug, repo_index,
                 exit_message,
                 interrupted>>

\* repo_stats = get_participation_stats(...); build_repo_row; write_repo_row;
\* the loop goes on.
StatsReturned ==
  /\ pc = "get_participation_stats" /\ FetchReturned
  /\ csvfile' = write_repo_row(csvfile,
       build_repo_row(repos[repo_index], repo_contributors, ret.value, member_logins_by_team_slug))
  /\ repo_contributors' = repo_contributors
  /\ EnterLoop(repos, repo_index + 1)
  /\ UNCHANGED <<env, server, faults, args, previously_processed_repo_ids, repos, all_teams,
                 members_by_team_slug, member_logins_by_team_slug, exit_message,
                 interrupted>>

\* An exception (AssertionError, ValueError of time.sleep) is caught nowhere:
\* the process ends and only the file survives.
Crash ==
  /\ pc \in Waiting /\ ret.state = "raised"
  /\ pc' = "crashed"
  /\ args' = [append_only |-> FALSE]
  /\ server' = OrgServer(<<>>)
  /\ MemoryCleared
  /\ FetcherIdle
  /\ Interrupt
  /\ UNCHANGED <<env, faults, csvfile>>

\* The process is interrupted between two steps: only the file survives.
Kill ==
  /\ pc \in Waiting /\ ret.state # "raised"
  /\ pc' = "killed"
  /\ args' = [append_only |-> FALSE]
  /\ server' = OrgServer(<<>>)
  /\ MemoryCleared
  /\ FetcherIdle
  /\ Interrupt
  /\ UNCHANGED <<env, faults, csvfile>>

Init ==
  /\ env = OrgEnv
  /\ server = OrgServer(<<>>)
  /\ faults = 0
  /\ call = NoCall
  /\ stack = <<>>
  /\ ret = NoRet
  /\ log_errors = <<>>
  /\ answered = {}
  /\ last_get = NoGet
  /\ slept = NotSlept
  /\ finished = NotFinished
  /\ JobOff

Next ==
  \/ StartAppendOnly \/ StartNormal
  \/ ReposReturned \/ TeamsReturned \/ MembersReturned
  \/ ContributorsReturned \/ StatsReturned
  \/ Crash \/ Kill
  \/ GetOk \/ GetNoContent \/ GetFailed \/ Exhausted \/ Resume

Spec == Init /\ [][Next]_vars

\* ------------------------------------------- the fetcher on its own
\* Rate-limit headers and clock readings on both sides of the floor and of the
\* reset time.
FetchHeaders ==
  [limit : {60}, remaining : {MIN_RATE_LIMIT_REMAINING - 1, MIN_RATE_LIMIT_REMAINING},
   reset : {1000, 1007}]

FetchEnv ==
  [statuses |-> {200, 204, 403, 500}, headers |-> FetchHeaders, nows |-> {1001},
   max_faults |-> 1, count_gets |-> FALSE]

\* Page p of the generic endpoint holds its own PageLen items, or nothing, or a
\* JSON object instead of a list.
PageItems(p) == [i \in 1..PageLen |-> p * (PageLen + 1) + i]

Bodies(p) == {List(PageItems(p)), List(<<>>), Dict(<<>>)}

Chains ==
  UNION {{pages \in [1..n -> UNION {Bodies(p) : p \in 1..n}] :
            \A p \in 1..n : pages[p] \in Bodies(p)} : n \in 1..MaxPages}

GenericEndpoint == [kind |-> "ep", key |-> ""]

GenericTarget == [ep |-> GenericEndpoint, page |-> 1]

InitFetch ==
  /\ env = FetchEnv
  /\ faults = 0
  /\ \E pages \in Chains : server = [ep \in {GenericEndpoint} |-> pages]
  /\ \E is_paginated \in BOOLEAN :
       /\ call = [url |-> GenericTarget, is_paginated |-> is_paginated, disturbed |-> FALSE,
                  gets |-> 0]
       /\ stack = <<NewFrame(GenericTarget, is_paginated)>>
  /\ ret = NoRet
  /\ log_errors = <<>>
  /\ answered = {}
  /\ last_get = NoGet
  /\ slept = NotSlept
  /\ finished = NotFinished
  /\ JobOff

NextFetch == GetOk \/ GetNoContent \/ GetFailed \/ Exhausted \/ Resume

SpecFetch == InitFetch /\ [][NextFetch]_vars

\* ------------------------------------------- the retry policy on its own
\* One request target, answered with rate-limit headers around the floor, with
\* both values of the maximum quota, and reset times before and after the clock.
SleepHeaders ==
  [limit : {60, 5000},
   remaining : {0, MIN_RATE_LIMIT_REMAINING - 1, MIN_RATE_LIMIT_REMAINING,
                MIN_RATE_LIMIT_REMAINING + 1},
   reset : {990, 1001, 1600}]

SleepEnv ==
  [statuses |-> {200, 204, 403}, headers |-> SleepHeaders, nows |-> {1000, 1001},
   max_faults |-> 1, count_gets |-> FALSE]

InitSleep ==
  /\ env = SleepEnv
  /\ faults = 0
  /\ server = [ep \in {GenericEndpoint} |-> <<List(PageItems(1))>>]
  /\ \E is_paginated \in BOOLEAN :
       /\ call = [url |-> GenericTarget, is_paginated |-> is_paginated, disturbed |-> FALSE,
                  gets |-> 0]
       /\ stack = <<NewFrame(GenericTarget, is_paginated)>>
  /\ ret = NoRet
  /\ log_errors = <<>>
  /\ answered = {}
  /\ last_get = NoGet
  /\ slept = NotSlept
  /\ finished = NotFinished
  /\ JobOff

NextSleep == GetOk \/ GetNoContent \/ GetFailed \/ Exhausted

SpecSleep == InitSleep /\ [][NextSleep]_vars

\* ------------------------------------------- the retry budget on its own
\* A paginated or plain call on a chain of 1..MaxPages list pages; the server
\* counts the requests and may fail or answer 204 on any of them.
BudgetEnv ==
  [statuses |-> {200, 204, 500},
   headers |-> {[limit |-> 60, remaining |-> MIN_RATE_LIMIT_REMAINING, reset |-> 1007]},
   nows |-> {1001}, max_faults |-> 1, count_gets |-> TRUE]

InitBudget ==
  /\ env = BudgetEnv
  /\ faults = 0
  /\ \E n \in 1..MaxPages : server = [ep \in {GenericEndpoint} |-> [p \in 1..n |-> List(PageItems(p))]]
  /\ \E is_paginated \in BOOLEAN :
       /\ call = [url |-> GenericTarget, is_paginated |-> is_paginated, disturbed |-> FALSE,
                  gets |-> 0]
       /\ stack = <<NewFrame(GenericTarget, is_paginated)>>
  /\ ret = NoRet
  /\ log_errors = <<>>
  /\ answered = {}
  /\ last_get = NoGet
  /\ slept = NotSlept
  /\ finished = NotFinished
  /\ JobOff

\* Every request is answered and the interpreter takes its next step.
SpecBudget == InitBudget /\ [][NextFetch]_vars /\ WF_vars(NextFetch)

\* ------------------------------------------- build_repo_row on its own
\* The loop has one repository in hand and get_participation_stats has just
\* returned: any of the repositories, contributor lists in any order, teams with
\* any members, stats absent or with few, exactly three, or more than 52 weeks.
RowContributors ==
  {<<>>, <<"alice">>, <<"carol">>, <<"dave">>, <<"bob", "alice">>, <<"alice", "bob">>,
   <<"carol", "bob">>, <<"bob", "carol", "alice">>}

RowTeams == {<<>>, <<"core">>, <<"docs">>, <<"docs", "core">>}

RowMembers == {<<>>, <<"alice">>, <<"bob">>, <<"carol">>, <<"carol", "alice">>, <<"alice", "bob">>}

RowWeeks ==
  {<<>>, <<2>>, <<4, 1>>, <<6, 0, 3>>, <<1, 0, 2, 3>>,
   [k \in 1..53 |-> IF k = 1 THEN 7 ELSE IF k > 50 THEN k - 50 ELSE k % 2]}

RowStats == {None} \cup {Dict(weeks) : weeks \in RowWeeks}

InitRow ==
  /\ env = OrgEnv
  /\ faults = 0
  /\ \E id \in {Universe[k] : k \in 1..Len(Universe)} :
       /\ server = OrgServer(<<id>>)
       /\ repos = <<RepoById(id)>>
       /\ call = [url |-> url(ParticipationEndpoint(RepoById(id).full_name)),
                  is_paginated |-> FALSE, disturbed |-> FALSE, gets |-> 0]
  /\ \E teams \in RowTeams :
       \E members \in [1..Len(teams) -> RowMembers] :
         /\ all_teams = Records("slug", teams)
         /\ members_by_team_slug = [t \in 1..Len(teams) |-> Records("login", members[t])]
         /\ member_logins_by_team_slug = LoginsByTeamSlug(all_teams, members_by_team_slug)
  /\ \E contributors \in RowContributors : repo_contributors = Records("login", contributors)
  /\ \E repo_stats \in RowStats : ret = Returned(repo_stats)
  /\ stack = <<>>
  /\ log_errors = <<>>
  /\ answered = {}
  /\ last_get = NoGet
  /\ slept = NotSlept
  /\ finished = NotFinished
  /\ pc = "get_participation_stats"
  /\ args = [append_only |-> FALSE]
  /\ csvfile = start_repo_csv(NoFile).file
  /\ previously_processed_repo_ids = {}
  /\ repo_index = 1
  /\ exit_message = ""
  /\ interrupted = NotInterrupted

NextRow == StatsReturned

SpecRow == InitRow /\ [][NextRow]_vars

\* ---------------------------------------------------------------- claims
RECURSIVE ConcatPages(_, _)
ConcatPages(pages, n) ==
  IF n = 0 THEN <<>> ELSE ConcatPages(pages, n - 1) \o pages[n].items

CallDone == stack = <<>> /\ ret.state # "none"

AllPagesOk(ep) ==
  \A p \in 1..Len(Pages(ep)) :
    /\ isinstance_list(Pages(ep)[p])
    /\ [url |-> [ep |-> ep, page |-> p], outcome |-> "200"] \in answered

\* C1: when every page of a paginated chain of list pages was answered 200, the
\* finished call returns the concatenation of the pages' items in fetch order.
C1_Concatenation ==
  (CallDone /\ call.is_paginated /\ AllPagesOk(call.url.ep))
    => ret = Returned(List(ConcatPages(Pages(call.url.ep), Len(Pages(call.url.ep)))))

C1_Witness ==
  /\ CallDone /\ call.is_paginated /\ AllPagesOk(GenericEndpoint)
  /\ Len(server[GenericEndpoint]) = MaxPages
  /\ \A p \in 1..MaxPages : server[GenericEndpoint][p].items # <<>>
  /\ Len(ret.value.items) = MaxPages * PageLen

\* C2: a request target gets at most 20 attempts; exhaustion is reported after
\* exactly 20 attempts, all failed; a 200 or 204 on attempt k ends the target's
\* loop after exactly k attempts, and a target whose loop has ended is never
\* requested again.
C2_RetryCeiling ==
  /\ \A i \in 1..Len(stack) :
       stack[i].at = "loop" =>
         /\ stack[i].attempts = stack[i].failure_count
         /\ stack[i].attempts <= 20
         /\ \A a \in answered : a.url # stack[i].url
  /\ last_get.attempt <= 20
  /\ finished.outcome = "exhausted" =>
       /\ finished.attempts = 20 /\ finished.failure_count = 20
       /\ ret = Returned(None) /\ log_errors # <<>>
  /\ last_get.status_code \in {200, 204} =>
       /\ finished.url = last_get.url
       /\ finished.attempts = last_get.attempt
       /\ finished.attempts = finished.failure_count + 1
       /\ finished.attempts \in 1..20
  /\ (last_get.status_code \notin {0, 200, 204} /\ stack # <<>>) =>
       /\ Top.url = last_get.url /\ Top.at = "loop"
       /\ Top.attempts = last_get.attempt

C2_Witness ==
  /\ finished.outcome = "exhausted" /\ finished.attempts = 20
  /\ finished.url.page = 2

\* C3: a fetch in which some page ran out of retries returns no items at all.
C3_NoPartialResults ==
  (CallDone /\ ret.state = "value" /\ log_errors # <<>>) => ret.value = None

\* C4: the sleep after a failed response is 5 when the remaining quota is at
\* least 10, and (reset - now) when it is below 10, whatever the maximum quota
\* and whatever happened on earlier attempts.
C4_SleepDuration ==
  slept.called =>
    /\ slept.headers.remaining >= 10 => slept.seconds = 5
    /\ slept.headers.remaining < 10 => slept.seconds = slept.headers.reset - slept.now

C4_Witness ==
  /\ slept.called /\ slept.headers.remaining = 10 /\ slept.seconds = 5
  /\ slept.headers.limit = 5000
  /\ stack # <<>> /\ Top.failure_count = 20

\* C5: the argument of time.sleep is never negative.
C5_SleepNeverNegative == slept.called => slept.seconds >= 0

\* C6: a 204 ends the target's loop at once with None: it is not counted or
\* recorded as a failure, nothing is slept or logged for it, and the target is
\* never requested again.
C6_NoContent ==
  /\ last_get.status_code = 204 =>
       /\ finished.outcome = "204" /\ finished.url = last_get.url
       /\ ret = Returned(None)
       /\ finished.failure_count = finished.attempts - 1
       /\ finished.sleeps = finished.failure_count
       /\ 204 \notin finished.failure_status_codes
       /\ ~slept.called
       /\ log_errors = <<>>
       /\ \A i \in 1..Len(stack) : stack[i].url # last_get.url
  /\ \A i \in 1..Len(stack) :
       stack[i].at = "loop" =>
         [url |-> stack[i].url, outcome |-> "204"] \notin answered

C6_Witness ==
  /\ last_get.status_code = 204 /\ last_get.attempt = 20
  /\ finished.failure_count = 19
  /\ ret = Returned(None)

\* The repository ids of the file's data rows, read from the second column.
DataIds ==
  [r \in 1..(Len(csvfile.rows) - 1) |->
     LET cell == csvfile.rows[r + 1][2]
     IN IF Len(cell) = 1 THEN cell[1]
        ELSE IF Len(cell) = 2 THEN 10 * cell[1] + cell[2]
        ELSE 100 * cell[1] + 10 * cell[2] + cell[3]]

\* A step that starts the script without / with --append-only.
NormalStart == pc \in Stopped /\ pc' \in {"get_repos", "exited"} /\ ~args'.append_only

AnyStart == pc \in Stopped /\ pc' \in {"get_repos", "exited"}

\* C7: start_repo_csv on a missing file creates it with exactly the header row
\* and succeeds; on an existing file (header only, or with data rows) it fails
\* and leaves the file as it is.
C7_StartRepoCsv ==
  [][NormalStart =>
       IF csvfile.exists
         THEN csvfile' = csvfile /\ pc' = "exited"
         ELSE /\ csvfile' = [exists |-> TRUE, rows |-> <<RepoRow_fields>>]
              /\ pc' = "get_repos"]_vars

C7_Witness ==
  /\ pc = "exited" /\ ~args.append_only
  /\ csvfile.exists /\ Len(csvfile.rows) >= 3

\* C8: in an append-only run with skip-set S and fetched list L, the rows
\* appended so far are the first repositories of L outside S, one row each and
\* in the order of L, all of them once the run is done; no contributors or
\* participation request names a repository of S.
NewRepoIds ==
  LET ids == [k \in 1..Len(repos) |-> repos[k].id]
  IN SelectSeq(ids, LAMBDA id : id \notin previously_processed_repo_ids)

ProcessedCount ==
  Cardinality({k \in 1..(repo_index - 1) :
                 k <= Len(repos) /\ repos[k].id \notin previously_processed_repo_ids})

C8_AppendOnly ==
  (args.append_only /\ pc \in {"get_contributors", "get_participation_stats", "done"}) =>
    LET n == Cardinality(previously_processed_repo_ids)
    IN /\ Len(DataIds) = n + ProcessedCount
       /\ {DataIds[r] : r \in 1..n} = previously_processed_repo_ids
       /\ SubSeq(DataIds, n + 1, Len(DataIds)) = SubSeq(NewRepoIds, 1, ProcessedCount)
       /\ pc = "done" => ProcessedCount = Len(NewRepoIds)
       /\ last_get.url.ep.kind \in {"contributors", "participation"} =>
            RepoOfEndpoint(last_get.url.ep) \notin previously_processed_repo_ids

C8_Witness ==
  /\ args.append_only /\ pc = "done"
  /\ previously_processed_repo_ids # {}
  /\ \E k \in 1..Len(repos) : repos[k].id \in previously_processed_repo_ids
  /\ Len(NewRepoIds) >= 2
  /\ Len(DataIds) = Cardinality(previously_processed_repo_ids) + Len(NewRepoIds)

\* C9: no repository id is in two data rows of the file, whatever runs wrote it.
C9_NoDuplicateRows ==
  \A r1, r2 \in 1..Len(DataIds) : r1 # r2 => DataIds[r1] # DataIds[r2]

C9_Witness ==
  /\ args.append_only /\ pc = "done"
  /\ \E k \in 1..Len(repos) : repos[k].id \in previously_processed_repo_ids
  /\ NewRepoIds # <<>>
  /\ Len(DataIds) = MaxRepos

\* C10: the script exits during mode selection exactly when --append-only meets
\* a missing file or normal mode meets an existing one; it has then made no
\* request and the file is as it was; otherwise get_repos is called.
C10_StartupAbort ==
  [][AnyStart =>
       LET abort == \/ args'.append_only /\ ~csvfile.exists
                    \/ ~args'.append_only /\ csvfile.exists
       IN IF abort
            THEN /\ pc' = "exited"
                 /\ csvfile' = csvfile
                 /\ call' = NoCall /\ stack' = <<>> /\ last_get' = NoGet
            ELSE /\ pc' = "get_repos"
                 /\ call'.url = [ep |-> ReposEndpoint, page |-> 1]
                 /\ stack' # <<>>
                 /\ Len(csvfile'.rows) = IF csvfile.exists THEN Len(csvfile.rows) ELSE 1]_vars

C10_Witness ==
  /\ pc = "exited" /\ args.append_only /\ ~csvfile.exists
  /\ call = NoCall /\ last_get = NoGet

\* The repositories whose processing has started in the current run, and those
\* of them that have no row in the file.
StartedIds ==
  IF pc \in {"get_contributors", "get_participation_stats", "done"}
    THEN {repos[k].id : k \in {q \in 1..Len(repos) :
            q <= repo_index /\ repos[q].id \notin previously_processed_repo_ids}}
    ELSE {}

RowlessIds == StartedIds \ {DataIds[r] : r \in 1..Len(DataIds)}

RowsOf(id) == {r \in 1..Len(DataIds) : DataIds[r] = id}

FetchedIds == [k \in 1..Len(repos) |-> repos[k].id]

\* C11: at every point of a run at most one started repository has no row, the
\* one in flight; an interruption leaves that one without a row; and when the
\* following append-only run fetches the same list and completes, every
\* repository of the list has exactly one row, the interrupted one included.
C11_InterruptionRecovery ==
  /\ Cardinality(RowlessIds) <= 1
  /\ pc \in {"get_contributors", "get_participation_stats"} =>
       RowlessIds = {repos[repo_index].id}
  /\ pc = "done" => RowlessIds = {}
  /\ (pc \in {"killed", "crashed"} /\ interrupted.happened) =>
       /\ RowsOf(interrupted.in_flight) = {}
       /\ \E k \in 1..Len(interrupted.listed) : interrupted.listed[k] = interrupted.in_flight
  /\ (pc = "done" /\ args.append_only /\ interrupted.happened
        /\ FetchedIds = interrupted.listed) =>
       /\ \A k \in 1..Len(FetchedIds) : Cardinality(RowsOf(FetchedIds[k])) = 1
       /\ Cardinality(RowsOf(interrupted.in_flight)) = 1

C11_Witness ==
  /\ pc = "done" /\ args.append_only /\ interrupted.happened
  /\ FetchedIds = interrupted.listed /\ Len(FetchedIds) = MaxRepos
  /\ interrupted.in_flight = FetchedIds[2]
  /\ interrupted.in_flight \notin previously_processed_repo_ids
  /\ Cardinality(RowsOf(interrupted.in_flight)) = 1
  /\ Len(DataIds) = MaxRepos

\* The step in which get_contributors / get_participation_stats returns to the loop.
ContributorsStep == pc = "get_contributors" /\ pc' = "get_participation_stats"

StatsStep == pc = "get_participation_stats" /\ pc' \in {"get_contributors", "done"}

LaterToProcess ==
  {k \in (repo_index + 1)..Len(repos) : repos[k].id \notin previously_processed_repo_ids}

\* C12: when the contributors or the participation request of a repository runs
\* out of retries the loop goes on: the contributors are taken as empty, the
\* counts as zero, the repository gets its one row, and the loop moves to the
\* next repository outside the skip-set, or ends when there is none.
C12_ExhaustionDoesNotAbort ==
  [][/\ (ContributorsStep /\ log_errors # <<>>) => repo_contributors' = <<>>
     /\ StatsStep =>
          /\ Len(csvfile'.rows) = Len(csvfile.rows) + 1
          /\ SubSeq(csvfile'.rows, 1, Len(csvfile.rows)) = csvfile.rows
          /\ csvfile'.rows[Len(csvfile'.rows)][2] = str(repos[repo_index].id)
          /\ log_errors # <<>> =>
               /\ csvfile'.rows[Len(csvfile'.rows)][4] = str(0)
               /\ csvfile'.rows[Len(csvfile'.rows)][5] = str(0)
          /\ repo_contributors = <<>> =>
               /\ csvfile'.rows[Len(csvfile'.rows)][6] = str(0)
               /\ csvfile'.rows[Len(csvfile'.rows)][7] = <<>>
          /\ IF LaterToProcess = {}
               THEN pc' = "done"
               ELSE /\ pc' = "get_contributors"
                    /\ \A k \in LaterToProcess : repo_index' <= k
                    /\ repo_index' \in LaterToProcess]_vars

\* The same without the first conjunct.
C12_BatchGoesOn ==
  [][StatsStep =>
          /\ Len(csvfile'.rows) = Len(csvfile.rows) + 1
          /\ csvfile'.rows[Len(csvfile'.rows)][2] = str(repos[repo_index].id)
          /\ log_errors # <<>> =>
               /\ csvfile'.rows[Len(csvfile'.rows)][4] = str(0)
               /\ csvfile'.rows[Len(csvfile'.rows)][5] = str(0)
          /\ IF LaterToProcess = {}
               THEN pc' = "done"
               ELSE /\ pc' = "get_contributors" /\ repo_index' \in LaterToProcess]_vars

\* The last row of the file, and the number a cell of digits stands for.
LastRow == csvfile.rows[Len(csvfile.rows)]

RECURSIVE CellValue(_, _)
CellValue(cell, n) == IF n = 0 THEN 0 ELSE 10 * CellValue(cell, n - 1) + cell[n]

\* s[lo] + ... + s[hi]
RECURSIVE SumRange(_, _, _)
SumRange(s, lo, hi) == IF lo > hi THEN 0 ELSE s[hi] + SumRange(s, lo, hi - 1)

WeeklyTotal(s, n) == SumRange(s, IF Len(s) > n THEN Len(s) - n + 1 ELSE 1, Len(s))

\* C13: the row is written whatever the stats; its 3-week and 52-week counts
\* are 0 when the stats are absent, and otherwise the sums of the last 3 and of
\* the last 52 weekly values.
C13_CommitCounts ==
  pc = "done" =>
    /\ Len(csvfile.rows) = 2
    /\ LastRow[2] = str(repos[1].id)
    /\ LET repo_stats == ret.value
           last_3 == CellValue(LastRow[4], Len(LastRow[4]))
           last_52 == CellValue(LastRow[5], Len(LastRow[5]))
       IN IF repo_stats = None
            THEN last_3 = 0 /\ last_52 = 0
            ELSE /\ last_3 = WeeklyTotal(repo_stats.items, 3)
                 /\ last_52 = WeeklyTotal(repo_stats.items, 52)

C13_Witness ==
  /\ pc = "done" /\ Len(csvfile.rows) = 2
  /\ ret.value # None /\ Len(ret.value.items) = 53
  /\ CellValue(LastRow[4], Len(LastRow[4])) = 6
  /\ CellValue(LastRow[5], Len(LastRow[5])) = 30

C13_WitnessAbsent ==
  /\ pc = "done" /\ Len(csvfile.rows) = 2 /\ ret.value = None
  /\ LastRow[4] = <<0>> /\ LastRow[5] = <<0>>

\* C14: the team list of the row holds, once each, exactly the team slugs whose
\* members include a contributor of the repository.
ContributorLogins == {repo_contributors[k].login : k \in 1..Len(repo_contributors)}

C14_TeamList ==
  pc = "done" =>
    LET team_names == LastRow[8]
    IN /\ {team_names[k] : k \in 1..Len(team_names)} =
            {slug \in DOMAIN member_logins_by_team_slug :
               \E login \in ContributorLogins : login \in member_logins_by_team_slug[slug]}
       /\ \A j, k \in 1..Len(team_names) : j # k => team_names[j] # team_names[k]

C14_Witness ==
  /\ pc = "done"
  /\ ContributorLogins = {"alice", "bob"}
  /\ DOMAIN member_logins_by_team_slug = {"core", "docs"}
  /\ member_logins_by_team_slug["core"] = {"alice"}
  /\ member_logins_by_team_slug["docs"] = {"carol"}
  /\ LastRow[8] = <<"core">>

\* C15: every step leaves what the file held as a prefix of what it holds: a
\* missing file can only become the header alone, an existing file is never
\* removed, shortened or changed in a row it has, and the step that writes a
\* repository's row adds exactly one row at the end.
C15_AppendOnlyFile ==
  [][/\ csvfile.exists =>
          /\ csvfile'.exists
          /\ Len(csvfile'.rows) >= Len(csvfile.rows)
          /\ SubSeq(csvfile'.rows, 1, Len(csvfile.rows)) = csvfile.rows
     /\ (~csvfile.exists /\ csvfile'.exists) => csvfile'.rows = <<RepoRow_fields>>
     /\ IF StatsStep
          THEN Len(csvfile'.rows) = Len(csvfile.rows) + 1
          ELSE csvfile.exists => csvfile' = csvfile]_vars

C15_Witness ==
  /\ pc = "get_contributors" /\ args.append_only
  /\ previously_processed_repo_ids # {}
  /\ csvfile.rows[1] = RepoRow_fields
  /\ Len(csvfile.rows) = Cardinality(previously_processed_repo_ids) + 2
  /\ repo_index = MaxRepos

\* C16: get_repo_ids_from_csv signals not-found exactly for a missing file; for
\* an existing file it returns the set of the ids of the data rows, the empty
\* set for a header alone.  So an append-only run exits only on a missing
\* file, its skip-set is what the file held, and on a header-only file it
\* skips nothing: every fetched repository gets its row.
C16_RepoIdsFromCsv ==
  /\ get_repo_ids_from_csv(csvfile).found = csvfile.exists
  /\ csvfile.exists =>
       get_repo_ids_from_csv(csvfile).ids = {DataIds[r] : r \in 1..Len(DataIds)}
  /\ (args.append_only /\ pc = "exited") => ~csvfile.exists
  /\ (args.append_only /\ pc \in Waiting \cup {"done"}) =>
       /\ csvfile.exists
       /\ previously_processed_repo_ids
            = {DataIds[r] : r \in 1..(Len(DataIds) - ProcessedCount)}
  /\ (args.append_only /\ previously_processed_repo_ids = {}) =>
       /\ pc \in {"get_contributors", "get_participation_stats"} =>
            DataIds = SubSeq(FetchedIds, 1, repo_index - 1)
       /\ pc = "done" => DataIds = FetchedIds

C16_Witness ==
  /\ args.append_only /\ pc = "done"
  /\ previously_processed_repo_ids = {}
  /\ Len(FetchedIds) = MaxRepos
  /\ DataIds = FetchedIds

\* C17: what run_request returns for a 204 differs from what it returns when the
\* retries run out, which is None.
C17_NoDataIsNotFailure ==
  /\ finished.outcome = "exhausted" => ret = Returned(None)
  /\ finished.outcome = "204" => ret # Returned(None)

\* A page of the call was answered 200 with a body that is not a list.
NonListPages ==
  {a \in answered : a.outcome = "200" /\ ~isinstance_list(Pages(a.url.ep)[a.url.page])}

\* C18: a paginated call in which some page was answered 200 with a body that is
\* not a list ends with an assertion failure, wherever the page is in the chain.
C18_NonListFailsFast ==
  (CallDone /\ call.is_paginated /\ NonListPages # {}) => ret = Raised("AssertionError")

\* The same for the pages that carry a "next" link.
C18_NonListBeforeNext ==
  (CallDone /\ call.is_paginated /\ \E a \in NonListPages : HasNext(a.url))
    => ret = Raised("AssertionError")

\* The number of pages the call may request: the chain for a paginated call.
ChainLength == IF call.is_paginated THEN Len(Pages(call.url.ep)) ELSE 1

\* C19: every page has its own budget: its frame starts with no failure, makes
\* at most 20 attempts whatever the earlier pages took, and runs out only after
\* 20 attempts of its own; so a call on a chain of n pages makes at most 20 * n
\* requests, and it ends.
C19_BudgetPerTarget ==
  /\ [](/\ call.gets <= 20 * ChainLength
        /\ Len(stack) <= ChainLength
        /\ \A i \in 1..Len(stack) :
             /\ stack[i].url.page = i
             /\ stack[i].at = "loop" =>
                  /\ i = Len(stack)
                  /\ stack[i].failure_count = stack[i].attempts
                  /\ stack[i].attempts <= 20
                  /\ call.gets >= (i - 1) + stack[i].attempts
                  /\ call.gets <= 20 * (i - 1) + stack[i].attempts
        /\ finished.outcome = "exhausted" => finished.attempts = 20)
  /\ <>(stack = <<>> /\ ret.state # "none")

C19_Witness ==
  /\ call.is_paginated /\ ChainLength = MaxPages
  /\ finished.outcome = "exhausted" /\ finished.url.page = MaxPages
  /\ finished.attempts = 20
  /\ call.gets = 20 * MaxPages

\* C20: every failed attempt is followed, in the same turn of the loop, by one
\* time.sleep whose duration comes from the headers of that attempt's response;
\* a 200 or 204 is followed by none; so a target's sleeps equal its failures,
\* and exhaustion is reported after 20 attempts and 20 sleeps, by a step that
\* sleeps no more.
C20_SleepAfterEveryFailure ==
  /\ last_get.status_code \notin {0, 200, 204} =>
       /\ slept.called
       /\ slept.seconds = IF slept.headers.remaining < 10
                            THEN slept.headers.reset - slept.now ELSE 5
       /\ stack # <<>> =>
            /\ slept.headers = Top.raw_results.headers
            /\ Top.raw_results.status_code = last_get.status_code
            /\ Top.sleeps = last_get.attempt
            /\ Top.failure_count = last_get.attempt
  /\ last_get.status_code \in {0, 200, 204} => ~slept.called
  /\ \A i \in 1..Len(stack) :
       stack[i].at = "loop" =>
         stack[i].sleeps = stack[i].failure_count /\ stack[i].sleeps = stack[i].attempts
  /\ finished.outcome \in {"200", "204"} => finished.sleeps = finished.attempts - 1
  /\ finished.outcome = "exhausted" =>
       /\ finished.sleeps = 20 /\ finished.attempts = 20
       /\ ~slept.called /\ last_get = NoGet

C20_Witness ==
  /\ finished.outcome = "exhausted"
  /\ finished.sleeps = 20 /\ finished.attempts = 20
  /\ log_errors # <<>> /\ ret = Returned(None)

====
